---- MODULE Spec2Model ----
(***************************************************************************)
(* A model of OrganizeMedia.py: a one-shot script that classifies the      *)
(* entries of a directory into photos and videos, reads a capture date     *)
(* from each file's metadata, and moves the file into a date-named         *)
(* sub-directory, keeping an in-memory transaction log that is printed     *)
(* at the end.                                                             *)
(*                                                                         *)
(* Python strings are modelled as sequences of one-character strings, so   *)
(* that split, strip, concatenation and comparison are computed.           *)
(***************************************************************************)
EXTENDS Integers, Sequences, FiniteSets, TLC

VARIABLES
    pc,            \* position in main: listdir, confirm, layout, img_loop, video_loop, exited after a full run
    step,          \* position in a loop body: extract, create_dir, move, record
    outcome,       \* "running", or how the process ended
    source_dir,    \* main's argument
    arr,           \* os.listdir's result
    imgs,          \* photo candidates
    videos,        \* video candidates
    dir_layout,    \* the layout mode ("" while unset)
    idx,           \* index of the current file in the running loop
    img_file,      \* img_copy_n_sort's local: the last image opened
    date_dir,      \* the current iteration's destination
    transactions,  \* dict: destination -> list of filenames
    made,          \* whether the transactions dict exists yet (line 182)
    files,         \* file system: paths of regular files
    dirs,          \* file system: paths of directories
    report,        \* what pp_transactions printed: <<destination, filenames>> per block
    rendered,      \* whether pp_transactions ran
    asked,         \* number of answers read so far by the prompt loop that is running
    layout_asked,  \* whether the layout prompt was shown
    confirm_res,   \* history: the last answer read at the confirmation prompt, stripped
    cur_input,     \* history: the metadata read for the current file
    undecodable,   \* history: photos whose Image.open raised IOError
    history,       \* history: add_record calls, in call order, as <<file, dest>>
    ensured,       \* history: the argument of the last create_dir call
    year,          \* argument of a direct generate_date_dir call
    month          \* argument of a direct generate_date_dir call

vars == <<pc, step, outcome, source_dir, arr, imgs, videos, dir_layout, idx,
          img_file, date_dir, transactions, made, files, dirs, report,
          rendered, asked, layout_asked, confirm_res, cur_input, undecodable,
          history, ensured, year, month>>

----------------------------------------------------------------------------
(* Bounds *)

\* longest directory listing
MaxFiles == 3
\* most answers one prompt loop reads
MaxAsk == 3
\* longest filename sequence handed to the classifier on its own
MaxLen == 3

----------------------------------------------------------------------------
(* Python string primitives *)

\* The characters in use, in ASCII order.
Alphabet == <<" ", "-", ".", "/", "0", "1", "2", "3", "4", "5", "6", "7", "8",
              "9", ":", "D", "T", "U", "Z", "_", "a", "b", "c", "d", "e", "f",
              "g", "h", "i", "j", "k", "l", "m", "n", "o", "p", "q", "r", "s",
              "t", "u", "v", "w", "x", "y", "z">>

Ord(c) == CHOOSE k \in 1..Len(Alphabet) : Alphabet[k] = c

\* Python's < on str: lexicographic by code point, a proper prefix is smaller.
RECURSIVE StrLess(_, _)
StrLess(s, t) ==
    IF t = <<>> THEN FALSE
    ELSE IF s = <<>> THEN TRUE
    ELSE IF Head(s) = Head(t) THEN StrLess(Tail(s), Tail(t))
    ELSE Ord(Head(s)) < Ord(Head(t))

\* str.split(sep) for a one-character sep: every occurrence splits, empty
\* tokens are kept, the result is never empty.
RECURSIVE SplitAcc(_, _, _, _)
SplitAcc(s, sep, done, tok) ==
    IF s = <<>> THEN Append(done, tok)
    ELSE IF Head(s) = sep THEN SplitAcc(Tail(s), sep, Append(done, tok), <<>>)
    ELSE SplitAcc(Tail(s), sep, done, Append(tok, Head(s)))

Split(s, sep) == SplitAcc(s, sep, <<>>, <<>>)

\* str.split() with no argument: runs of whitespace separate, no empty tokens.
SplitWS(s) == SelectSeq(Split(s, " "), LAMBDA t : t # <<>>)

\* str.strip()
RECURSIVE LStrip(_)
LStrip(s) == IF s # <<>> /\ Head(s) = " " THEN LStrip(Tail(s)) ELSE s

RECURSIVE RStrip(_)
RStrip(s) ==
    IF s # <<>> /\ s[Len(s)] = " " THEN RStrip(SubSeq(s, 1, Len(s) - 1)) ELSE s

Strip(s) == RStrip(LStrip(s))

----------------------------------------------------------------------------
(* Literals of the program *)

DEFAULT_DEST == <<"T","i","m","e","s","t","a","m","p","_",
                  "U","n","a","v","a","i","l","a","b","l","e">>

photo_types == { <<"j","p","g">>, <<"p","n","g">> }
video_types == { <<"m","p","4">> }

Layouts == {"year", "month", "year_month", "year/month"}

\* what generate_date_dir "returns" when it calls sys.exit(1)
SysExit == <<"sys.exit(1)">>

----------------------------------------------------------------------------
(* The program's functions *)

Last(s) == s[Len(s)]

\* find_media_in_dir, one file: the last token of split('.') decides
MediaKind(file_name) ==
    LET tokens == Split(file_name, ".")
    IN  IF Last(tokens) \in photo_types THEN "photo"
        ELSE IF Last(tokens) \in video_types THEN "video"
        ELSE "other"

\* find_media_in_dir: <<photo_media, video_media>>, each in listing order
find_media_in_dir(fs) ==
    << SelectSeq(fs, LAMBDA f : MediaKind(f) = "photo"),
       SelectSeq(fs, LAMBDA f : MediaKind(f) = "video") >>

\* generate_date_dir with a '/' put after source_dir
generate_date_dir_slash(src, y, m, layout) ==
    IF layout = "month" THEN src \o <<"/">> \o m
    ELSE IF layout = "year" THEN src \o <<"/">> \o y
    ELSE IF layout = "year_month" THEN src \o <<"/">> \o y \o <<"_">> \o m
    ELSE IF layout = "year/month" THEN src \o <<"/">> \o y \o <<"/">> \o m
    ELSE SysExit

\* generate_date_dir whose last branch falls back to the year layout
\* instead of exiting
generate_date_dir_fallback(src, y, m, layout) ==
    IF layout = "month" THEN src \o m
    ELSE IF layout = "year_month" THEN src \o y \o <<"_">> \o m
    ELSE IF layout = "year/month" THEN src \o y \o <<"/">> \o m
    ELSE src \o y

\* generate_date_dir: the f-strings put nothing between source_dir and the
\* first token
generate_date_dir(src, y, m, layout) ==
    IF layout = "month" THEN src \o m
    ELSE IF layout = "year" THEN src \o y
    ELSE IF layout = "year_month" THEN src \o y \o <<"_">> \o m
    ELSE IF layout = "year/month" THEN src \o y \o <<"/">> \o m
    ELSE SysExit

\* the directories a path lies under: its prefixes that end before a '/'
Ancestors(path) ==
    { SubSeq(path, 1, k - 1) : k \in { j \in 1..Len(path) : path[j] = "/" } }

\* os.path.exists
PathExists(path) == path \in dirs \/ path \in files

\* os.makedirs: the path and every missing ancestor become directories
MakeDirs(path) == dirs \cup {path} \cup Ancestors(path)

\* os.makedirs raises when an ancestor is a regular file
MakeDirsFails(path) == \E a \in Ancestors(path) : a \in files

\* create_dir with its test inverted
create_dir_inverted(filepath) ==
    IF PathExists(filepath) THEN MakeDirs(filepath) ELSE dirs

\* create_dir: the file system's directories after the call
create_dir(filepath) ==
    IF ~PathExists(filepath) THEN MakeDirs(filepath) ELSE dirs

\* move_media: the two paths it hands to shutil.move
MoveOriginal(file_dir, media_file) == file_dir \o media_file
MoveDest(dest, media_file) == dest \o <<"/">> \o media_file

\* shutil.move raises when the source is missing or the target's directory
\* is not a directory
MoveFails(file_dir, media_file, dest) ==
    \/ MoveOriginal(file_dir, media_file) \notin files
    \/ dest \notin dirs

\* move_media: the file system's regular files after the call
move_media(file_dir, media_file, dest) ==
    (files \ {MoveOriginal(file_dir, media_file)})
        \cup {MoveDest(dest, media_file)}

\* add_record that puts the new filename first
add_record_prepend(trans, media_file, dest) ==
    LET val == IF dest \in DOMAIN trans THEN trans[dest] ELSE <<>>
    IN  [d \in (DOMAIN trans) \cup {dest} |->
            IF d = dest THEN <<media_file>> \o val ELSE trans[d]]

\* add_record: the dict after the call
add_record(trans, media_file, dest) ==
    LET val == IF dest \in DOMAIN trans THEN trans[dest] ELSE <<>>
    IN  [d \in (DOMAIN trans) \cup {dest} |->
            IF d = dest THEN Append(val, media_file) ELSE trans[d]]

\* sorted() over the dict's keys
RECURSIVE SortedKeys(_)
SortedKeys(S) ==
    IF S = {} THEN <<>>
    ELSE LET least == CHOOSE k \in S : \A o \in S \ {k} : StrLess(k, o)
         IN  <<least>> \o SortedKeys(S \ {least})

\* pp_transactions: one printed block per item of sorted(transactions.items())
pp_transactions(trans) ==
    LET keys == SortedKeys(DOMAIN trans)
    IN  [n \in 1..Len(keys) |-> <<keys[n], trans[keys[n]]>>]

\* the exit status of the process for each way it ends
ExitStatus(how) ==
    IF how \in {"done", "NonValidDirectory"} THEN 0 ELSE 1

----------------------------------------------------------------------------
(* Inputs: the directory, the files' metadata, the operator's answers *)

SrcDir == <<"D","/">>

A_JPG == <<"a",".","j","p","g">>
B_PNG == <<"b",".","p","n","g">>
C_MP4 == <<"c",".","m","p","4">>
D_MP4 == <<"d",".","m","p","4">>
\* an entry with no extension whose name is also a month token
E_08 == <<"0","8">>

Entries == {A_JPG, B_PNG, C_MP4, D_MP4, E_08}

\* EXIF tag 306 values, "YYYY:MM:DD HH:MM:SS"
TS_A == <<"2","0","2","1",":","0","8",":","1","5"," ",
          "1","0",":","0","0",":","0","0">>
TS_B == <<"2","0","2","0",":","0","1",":","1","5"," ",
          "1","0",":","0","0",":","0","0">>
TS_YearOnly == <<"2","0","2","1">>
TS_Empty == <<>>

\* creation_time values, "YYYY-MM-DD..."
CT_A == <<"2","0","2","1","-","0","8","-","1","5","T","1","0","Z">>
CT_B == <<"2","0","2","0","-","0","1","-","2","0","T","1","0","Z">>
CT_YearOnly == <<"2","0","2","1">>
CT_Empty == <<>>

NoInput == [kind |-> "none", val |-> <<>>]
Unbound == [kind |-> "unbound", val |-> <<>>]

\* what Image.open and getexif().get(306, None) can give for a photo
PhotoInputs ==
    { [kind |-> "undecodable", val |-> <<>>],
      [kind |-> "no_306", val |-> <<>>] }
    \cup { [kind |-> "306", val |-> v] : v \in {TS_A, TS_B, TS_YearOnly, TS_Empty} }

\* what ffmpeg.probe can give for a video
VideoInputs ==
    { [kind |-> "probe_error", val |-> <<>>],
      [kind |-> "no_video_stream", val |-> <<>>],
      [kind |-> "no_tags", val |-> <<>>],
      [kind |-> "no_creation_time", val |-> <<>>] }
    \cup { [kind |-> "creation_time", val |-> v] :
             v \in {CT_A, CT_B, CT_YearOnly, CT_Empty} }

\* answers typed at a prompt
Answers == { <<"y">>, <<"n">>, <<" ","n">>, <<"y"," ">>, <<"m">>,
             <<"y","_","m">>, <<"y","/","m">>, <<"q">>, <<>> }

\* sequences over S of length n without repetition
DistinctSeqs(S, n) ==
    { s \in [1..n -> S] : \A a, b \in 1..n : a # b => s[a] # s[b] }

Listings == UNION { DistinctSeqs(Entries, n) : n \in 0..MaxFiles }

Range(s) == { s[k] : k \in 1..Len(s) }

----------------------------------------------------------------------------
(* Destination of one file, as the two loops compute it *)

Ok(path) == [err |-> "none", dir |-> path]
Raise(e) == [err |-> e, dir |-> <<>>]

\* generate_date_dir called from a loop: a path, or the process exits
Resolve(src, y, m, layout) ==
    LET d == generate_date_dir(src, y, m, layout)
    IN  IF d = SysExit THEN Raise("InvalidLayout") ELSE Ok(d)

\* img_copy_n_sort, lines 122-130, on the image img_file is bound to
PhotoDateDir(img, src, layout) ==
    IF img.kind = "unbound" THEN Raise("UnboundLocalError")
    ELSE IF img.kind = "no_306" THEN Ok(src \o DEFAULT_DEST)
    ELSE LET time_tokens == SplitWS(img.val)
         IN  IF time_tokens = <<>> THEN Raise("IndexError")
             ELSE LET date == Split(time_tokens[1], ":")
                  IN  IF Len(date) < 2 THEN Raise("IndexError")
                      ELSE Resolve(src, date[1], date[2], layout)

\* video_copy_n_sort, lines 86-103, on what the probe gave
VideoDateDir(inp, src, layout) ==
    IF inp.kind = "probe_error" THEN Raise("ProbeError")
    ELSE IF inp.kind = "no_video_stream" THEN Raise("NoVideoStream")
    ELSE IF inp.kind \in {"no_tags", "no_creation_time"} THEN Raise("KeyError")
    ELSE LET tokens == Split(inp.val, "-")
         IN  IF Len(tokens) < 2 THEN Ok(src \o DEFAULT_DEST)
             ELSE Resolve(src, tokens[1], tokens[2], layout)

----------------------------------------------------------------------------
(* The file system a run starts from *)

\* the entries of the source directory: E_08 may be a directory, the others
\* are regular files
FileSystems ==
    { [fs |-> { SrcDir \o e : e \in es \ ds },
       ds |-> Ancestors(SrcDir) \cup { SrcDir \o e : e \in ds }] :
         es \in { x \in SUBSET Entries : Cardinality(x) <= MaxFiles },
         ds \in SUBSET {E_08} }

\* the names os.listdir can return for the file system, in any order
ListingsOf(fs, ds) ==
    { l \in Listings :
        { SrcDir \o e : e \in Range(l) } = fs \cup (ds \ Ancestors(SrcDir)) }

InitCommon ==
    /\ step = "extract"
    /\ outcome = "running"
    /\ idx = 1
    /\ img_file = Unbound
    /\ date_dir = <<>>
    /\ transactions = <<>>
    /\ report = <<>>
    /\ rendered = FALSE
    /\ asked = 0
    /\ layout_asked = FALSE
    /\ confirm_res = <<>>
    /\ cur_input = NoInput
    /\ undecodable = {}
    /\ history = <<>>
    /\ ensured = <<>>
    /\ year = <<>>
    /\ month = <<>>

\* main(SOURCE_DIR) is about to run
Init ==
    /\ InitCommon
    /\ pc = "listdir"
    /\ source_dir = SrcDir
    /\ arr = <<>>
    /\ imgs = <<>>
    /\ videos = <<>>
    /\ dir_layout = ""
    /\ made = FALSE
    /\ \E f \in FileSystems : files = f.fs /\ dirs = f.ds

----------------------------------------------------------------------------
(* main *)

\* the process ends where it stands
Exit(how) ==
    /\ pc' = pc
    /\ outcome' = how

\* lines 139-153: list the directory, classify, stop when nothing was found
ListDir ==
    /\ pc = "listdir"
    /\ outcome = "running"
    /\ \E readable \in BOOLEAN :
         IF ~readable
         THEN /\ Exit("NonValidDirectory")
              /\ UNCHANGED <<arr, imgs, videos>>
         ELSE \E l \in ListingsOf(files, dirs) :
                LET media == find_media_in_dir(l)
                IN  /\ arr' = l
                    /\ imgs' = media[1]
                    /\ videos' = media[2]
                    /\ IF Len(media[1]) = 0 /\ Len(media[2]) = 0
                       THEN Exit("NoMedia")
                       ELSE pc' = "confirm" /\ outcome' = outcome
    /\ UNCHANGED <<step, source_dir, dir_layout, idx, img_file, date_dir,
                   transactions, made, files, dirs, report, rendered, asked,
                   layout_asked, cur_input, undecodable, history, ensured,
                   year, month,
                   confirm_res>>

\* the confirmation loop taking every answer but "n" for a yes
Confirm_AnyButN ==
    /\ pc = "confirm"
    /\ outcome = "running"
    /\ asked < MaxAsk
    /\ \E res \in Answers :
         /\ confirm_res' = Strip(res)
         /\ IF Strip(res) = <<"n">>
            THEN /\ Exit("Abort")
                 /\ asked' = asked + 1
                 /\ layout_asked' = layout_asked
            ELSE /\ pc' = "layout"
                 /\ asked' = 0
                 /\ layout_asked' = TRUE
                 /\ outcome' = outcome
    /\ UNCHANGED <<step, source_dir, arr, imgs, videos, dir_layout, idx,
                   img_file, date_dir, transactions, made, files, dirs,
                   report, rendered, cur_input, undecodable, history, ensured,
                   year, month>>

\* lines 155-163: one answer at the confirmation prompt
Confirm ==
    /\ pc = "confirm"
    /\ outcome = "running"
    /\ asked < MaxAsk
    /\ \E res \in Answers :
         /\ confirm_res' = Strip(res)
         /\ IF Strip(res) = <<"y">>
            THEN /\ pc' = "layout"
                 /\ asked' = 0
                 /\ layout_asked' = TRUE
                 /\ outcome' = outcome
            ELSE IF Strip(res) = <<"n">>
            THEN /\ Exit("Abort")
                 /\ asked' = asked + 1
                 /\ layout_asked' = layout_asked
            ELSE /\ asked' = asked + 1
                 /\ UNCHANGED <<pc, outcome, layout_asked>>
    /\ UNCHANGED <<step, source_dir, arr, imgs, videos, dir_layout, idx,
                   img_file, date_dir, transactions, made, files, dirs,
                   report, rendered, cur_input, undecodable, history, ensured,
                   year, month>>

\* lines 171-178: the layout an answer selects ("" for none)
LayoutOf(res) ==
    IF Strip(res) = <<"y">> THEN "year"
    ELSE IF Strip(res) = <<"m">> THEN "month"
    ELSE IF Strip(res) = <<"y","_","m">> THEN "year_month"
    ELSE IF Strip(res) = <<"y","/","m">> THEN "year/month"
    ELSE ""

\* lines 165-183: one answer at the layout prompt; a recognized one creates
\* the transactions dict and enters img_copy_n_sort
ChooseLayout ==
    /\ pc = "layout"
    /\ outcome = "running"
    /\ asked < MaxAsk
    /\ \E res \in Answers :
         IF LayoutOf(res) # ""
         THEN /\ dir_layout' = LayoutOf(res)
              /\ made' = TRUE
              /\ transactions' = <<>>
              /\ pc' = "img_loop"
              /\ asked' = 0
         ELSE /\ asked' = asked + 1
              /\ UNCHANGED <<dir_layout, made, transactions, pc>>
    /\ UNCHANGED <<step, outcome, source_dir, arr, imgs, videos, idx,
                   img_file, date_dir, files, dirs, report, rendered,
                   layout_asked, cur_input, undecodable, history, ensured,
                   year, month,
                   confirm_res>>

----------------------------------------------------------------------------
(* img_copy_n_sort and video_copy_n_sort *)

InLoop(kind) ==
    /\ pc = kind
    /\ outcome = "running"

CurFile == IF pc = "img_loop" THEN imgs[idx] ELSE videos[idx]

\* lines 116-130: open the next photo and work out its destination
ImgExtract ==
    /\ InLoop("img_loop")
    /\ step = "extract"
    /\ idx <= Len(imgs)
    /\ \E inp \in PhotoInputs :
         LET opened == IF inp.kind = "undecodable" THEN img_file ELSE inp
             res == PhotoDateDir(opened, source_dir, dir_layout)
         IN  /\ img_file' = opened
             /\ cur_input' = inp
             /\ undecodable' = IF inp.kind = "undecodable"
                               THEN undecodable \cup {imgs[idx]}
                               ELSE undecodable
             /\ IF res.err = "none"
                THEN /\ date_dir' = res.dir
                     /\ step' = "create_dir"
                     /\ UNCHANGED <<pc, outcome>>
                ELSE /\ Exit(res.err)
                     /\ UNCHANGED <<date_dir, step>>
    /\ UNCHANGED <<source_dir, arr, imgs, videos, dir_layout, idx,
                   transactions, made, files, dirs, report, rendered, asked,
                   layout_asked, history, ensured, year, month,
                   confirm_res>>

\* lines 82-103: probe the next video and work out its destination
VideoExtract ==
    /\ InLoop("video_loop")
    /\ step = "extract"
    /\ idx <= Len(videos)
    /\ \E inp \in VideoInputs :
         LET res == VideoDateDir(inp, source_dir, dir_layout)
         IN  /\ cur_input' = inp
             /\ IF res.err = "none"
                THEN /\ date_dir' = res.dir
                     /\ step' = "create_dir"
                     /\ UNCHANGED <<pc, outcome>>
                ELSE /\ Exit(res.err)
                     /\ UNCHANGED <<date_dir, step>>
    /\ UNCHANGED <<source_dir, arr, imgs, videos, dir_layout, idx, img_file,
                   transactions, made, files, dirs, report, rendered, asked,
                   layout_asked, undecodable, history, ensured, year, month,
                   confirm_res>>

\* lines 105 and 132: create_dir(date_dir)
CreateDir ==
    /\ pc \in {"img_loop", "video_loop"}
    /\ outcome = "running"
    /\ step = "create_dir"
    /\ ensured' = date_dir
    /\ IF ~PathExists(date_dir) /\ MakeDirsFails(date_dir)
       THEN Exit("MakedirsError") /\ UNCHANGED <<dirs, step>>
       ELSE /\ dirs' = create_dir(date_dir)
            /\ step' = "move"
            /\ UNCHANGED <<pc, outcome>>
    /\ UNCHANGED <<source_dir, arr, imgs, videos, dir_layout, idx, img_file,
                   date_dir, transactions, made, files, report, rendered,
                   asked, layout_asked, cur_input, undecodable, history,
                   year, month,
                   confirm_res>>

\* lines 106 and 133: move_media(source_dir, file, date_dir)
MoveMedia ==
    /\ pc \in {"img_loop", "video_loop"}
    /\ outcome = "running"
    /\ step = "move"
    /\ IF MoveFails(source_dir, CurFile, date_dir)
       THEN Exit("MoveError") /\ UNCHANGED <<files, step>>
       ELSE /\ files' = move_media(source_dir, CurFile, date_dir)
            /\ step' = "record"
            /\ UNCHANGED <<pc, outcome>>
    /\ UNCHANGED <<source_dir, arr, imgs, videos, dir_layout, idx, img_file,
                   date_dir, transactions, made, dirs, report, rendered,
                   asked, layout_asked, cur_input, undecodable, history,
                   ensured, year, month,
                   confirm_res>>

\* lines 107 and 134: add_record(transactions, file, date_dir), and on to
\* the next file
AddRecord ==
    /\ pc \in {"img_loop", "video_loop"}
    /\ outcome = "running"
    /\ step = "record"
    /\ transactions' = add_record(transactions, CurFile, date_dir)
    /\ history' = Append(history, <<CurFile, date_dir>>)
    /\ idx' = idx + 1
    /\ step' = "extract"
    /\ cur_input' = NoInput
    /\ UNCHANGED <<pc, outcome, source_dir, arr, imgs, videos, dir_layout,
                   img_file, date_dir, made, files, dirs, report, rendered,
                   asked, layout_asked, undecodable, ensured, year, month,
                   confirm_res>>

\* lines 183-184: img_copy_n_sort returns, video_copy_n_sort starts
ImgLoopEnd ==
    /\ InLoop("img_loop")
    /\ step = "extract"
    /\ idx > Len(imgs)
    /\ pc' = "video_loop"
    /\ idx' = 1
    /\ img_file' = Unbound
    /\ UNCHANGED <<step, outcome, source_dir, arr, imgs, videos, dir_layout,
                   date_dir, transactions, made, files, dirs, report,
                   rendered, asked, layout_asked, cur_input, undecodable,
                   history, ensured, year, month,
                   confirm_res>>

\* lines 184-186: video_copy_n_sort returns, pp_transactions prints, main
\* returns
Report ==
    /\ InLoop("video_loop")
    /\ step = "extract"
    /\ idx > Len(videos)
    /\ report' = pp_transactions(transactions)
    /\ rendered' = TRUE
    /\ pc' = "exited"
    /\ outcome' = "done"
    /\ UNCHANGED <<step, source_dir, arr, imgs, videos, dir_layout, idx,
                   img_file, date_dir, transactions, made, files, dirs,
                   asked, layout_asked, cur_input, undecodable, history,
                   ensured, year, month,
                   confirm_res>>

Loops == ImgExtract \/ VideoExtract \/ CreateDir \/ MoveMedia \/ AddRecord
            \/ ImgLoopEnd \/ Report

Next == ListDir \/ Confirm \/ ChooseLayout \/ Loops

Spec == Init /\ [][Next]_vars

----------------------------------------------------------------------------
(* The two loops called on their own, as functions of their arguments *)

AllLayouts == Layouts \cup {"day"}

\* lines 182-186 with any photo list, video list and dir_layout
InitLoops ==
    /\ InitCommon
    /\ pc = "img_loop"
    /\ source_dir = SrcDir
    /\ made = TRUE
    /\ dir_layout \in AllLayouts
    /\ \E f \in FileSystems :
         /\ files = f.fs
         /\ dirs = f.ds
         /\ arr \in ListingsOf(f.fs, f.ds)
    /\ imgs = find_media_in_dir(arr)[1]
    /\ videos = find_media_in_dir(arr)[2]

SpecLoops == InitLoops /\ [][Loops]_vars

----------------------------------------------------------------------------
(* find_media_in_dir and generate_date_dir called on their own *)

N_TXT == <<"n",".","t","x","t">>
JPG == <<"j","p","g">>
MP4 == <<"m","p","4">>
X == <<"x">>
AB_PNG == <<"a",".","b",".","p","n","g">>
JPG_DOT == <<"j","p","g",".">>

PureNames == {A_JPG, B_PNG, C_MP4, N_TXT, JPG, MP4, X, AB_PNG, JPG_DOT}

NameSeqs == UNION { [1..n -> PureNames] : n \in 0..MaxLen }

SourceDirs == { SrcDir, <<"/">>, <<"D">>, <<>> }

YearTokens == { <<"2","0","2","1">>, <<"2","0">> }
MonthTokens == { <<"0","8">>, <<"8">>, <<>> }

InitPure ==
    /\ InitCommon
    /\ made = FALSE
    /\ files = {}
    /\ dirs = {}
    /\ imgs = <<>>
    /\ videos = <<>>
    /\ \/ /\ pc = "call_find_media_in_dir"
          /\ arr \in NameSeqs
          /\ source_dir = SrcDir
          /\ dir_layout = ""
       \/ /\ pc = "call_generate_date_dir"
          /\ arr = <<>>
          /\ source_dir \in SourceDirs
          /\ dir_layout \in AllLayouts

\* imgs, videos = find_media_in_dir(arr)
CallFindMedia ==
    /\ pc = "call_find_media_in_dir"
    /\ imgs' = find_media_in_dir(arr)[1]
    /\ videos' = find_media_in_dir(arr)[2]
    /\ pc' = "classified"
    /\ UNCHANGED <<step, outcome, source_dir, arr, dir_layout, idx, img_file,
                   date_dir, transactions, made, files, dirs, report,
                   rendered, asked, layout_asked, confirm_res, cur_input,
                   undecodable, history, ensured, year, month>>

\* date_dir = generate_date_dir(source_dir, year, month, dir_layout)
CallGenerateDateDir ==
    /\ pc = "call_generate_date_dir"
    /\ outcome = "running"
    /\ \E y \in YearTokens, m \in MonthTokens :
         LET res == Resolve(source_dir, y, m, dir_layout)
         IN  /\ year' = y
             /\ month' = m
             /\ IF res.err = "none"
                THEN date_dir' = res.dir /\ pc' = "resolved" /\ outcome' = outcome
                ELSE date_dir' = date_dir /\ Exit(res.err)
    /\ UNCHANGED <<step, source_dir, arr, imgs, videos, dir_layout, idx,
                   img_file, transactions, made, files, dirs, report,
                   rendered, asked, layout_asked, confirm_res, cur_input,
                   undecodable, history, ensured>>

NextPure == CallFindMedia \/ CallGenerateDateDir

SpecPure == InitPure /\ [][NextPure]_vars

----------------------------------------------------------------------------
(* Vocabulary of the properties *)

DefaultDir == source_dir \o DEFAULT_DEST

\* the directory a path lies in
Parent(path) ==
    LET ks == { k \in 1..Len(path) : path[k] = "/" }
    IN  SubSeq(path, 1, (CHOOSE k \in ks : \A j \in ks : j <= k) - 1)

\* nothing was moved and no directory was created
Untouched ==
    /\ \A p \in files : \E e \in Entries : p = source_dir \o e
    /\ dirs \subseteq Ancestors(source_dir) \cup {source_dir \o E_08}

AtSource(f) == (source_dir \o f) \in files

Recorded == { history[k][1] : k \in 1..Len(history) }

\* the filenames recorded under destination d, in the order of the calls
RecordedUnder(d) ==
    LET hs == SelectSeq(history, LAMBDA h : h[2] = d)
    IN  [k \in 1..Len(hs) |-> hs[k][1]]

\* the tag read has no month token
Partial(inp) ==
    \/ /\ inp.kind = "306"
       /\ \/ SplitWS(inp.val) = <<>>
          \/ Len(Split(SplitWS(inp.val)[1], ":")) < 2
    \/ /\ inp.kind = "creation_time"
       /\ Len(Split(inp.val, "-")) < 2

\* the tag read has a year and a month token
BothTokens(inp) ==
    /\ inp.kind \in {"306", "creation_time"}
    /\ ~Partial(inp)

\* the text after the last '.' of a name that has one
HasDot(name) == \E k \in 1..Len(name) : name[k] = "."

Extension(name) ==
    LET ks == { k \in 1..Len(name) : name[k] = "." }
    IN  SubSeq(name, (CHOOSE k \in ks : \A j \in ks : j <= k) + 1, Len(name))

----------------------------------------------------------------------------
(* Properties *)

\* C1: a photo that cannot be decoded is logged and skipped: it is neither
\* moved nor recorded, the run does not die on it, wherever it stands in the
\* listing.
C1_UndecodableSkipped ==
    /\ outcome # "UnboundLocalError"
    /\ \A f \in undecodable : AtSource(f) /\ f \notin Recorded

\* C2: a video with a video stream whose tags entry or creation_time tag is
\* missing is not an error: its destination is the default bucket and the
\* run goes on.
C2_MissingTagToDefault ==
    cur_input.kind \in {"no_tags", "no_creation_time"} =>
        /\ outcome = "running"
        /\ step \in {"create_dir", "move", "record"}
        /\ date_dir = DefaultDir

\* C3: for both kinds, a tag that is present but yields no month token is
\* treated as absent: the destination is the default bucket and the run goes
\* on.
C3_PartialTagToDefault ==
    Partial(cur_input) =>
        /\ outcome = "running"
        /\ step \in {"create_dir", "move", "record"}
        /\ date_dir = DefaultDir

\* C4: an "n" at the confirmation prompt ends the session aborted with
\* nothing moved, no directory created, no layout prompt and no transaction
\* log made or rendered; and nothing is moved or created before a "y" and a
\* recognized layout token were both read.
C4_NothingBeforeConsent ==
    /\ confirm_res = <<"n">> => outcome = "Abort"
    /\ outcome = "Abort" =>
        /\ confirm_res = <<"n">>
        /\ ExitStatus(outcome) = 1
        /\ Untouched
        /\ ~layout_asked
        /\ ~made
        /\ ~rendered
        /\ history = <<>>
        /\ dir_layout = ""
    /\ (~Untouched \/ history # <<>> \/ step # "extract") =>
        /\ confirm_res = <<"y">>
        /\ dir_layout \in Layouts

\* C4 witness: aborted by "n" after an unrecognized answer
C4_Witness ==
    /\ outcome = "Abort"
    /\ asked = MaxAsk
    /\ confirm_res = <<"n">>

C6_FatalExitsNonzero ==
    outcome \in {"NonValidDirectory", "NoMedia", "ProbeError",
                 "NoVideoStream", "InvalidLayout"} =>
        /\ ExitStatus(outcome) # 0
        /\ ~rendered

\* C7 as stated: the resolver returns source_dir, a '/', then the tokens.
C7_SlashAfterSourceDir ==
    pc = "resolved" =>
        date_dir = source_dir \o <<"/">> \o
            (CASE dir_layout = "month" -> month
               [] dir_layout = "year" -> year
               [] dir_layout = "year_month" -> year \o <<"_">> \o month
               [] dir_layout = "year/month" -> year \o <<"/">> \o month)

\* C7 amended: the resolver returns source_dir followed at once by the
\* tokens, used verbatim: month, year, year_month or year/month; it adds no
\* separator after source_dir.
C7_TokensAppended ==
    pc = "resolved" =>
        LET n == Len(source_dir)
            rest == SubSeq(date_dir, n + 1, Len(date_dir))
        IN  /\ dir_layout \in Layouts
            /\ SubSeq(date_dir, 1, n) = source_dir
            /\ dir_layout = "month" => rest = month
            /\ dir_layout = "year" => rest = year
            /\ dir_layout = "year_month" =>
                 /\ Len(rest) = Len(year) + 1 + Len(month)
                 /\ SubSeq(rest, 1, Len(year)) = year
                 /\ rest[Len(year) + 1] = "_"
                 /\ SubSeq(rest, Len(year) + 2, Len(rest)) = month
            /\ dir_layout = "year/month" =>
                 /\ Len(rest) = Len(year) + 1 + Len(month)
                 /\ SubSeq(rest, 1, Len(year)) = year
                 /\ rest[Len(year) + 1] = "/"
                 /\ SubSeq(rest, Len(year) + 2, Len(rest)) = month

\* C7 witness: a source directory without a trailing '/' and an unpadded
\* month
C7_Witness ==
    /\ pc = "resolved"
    /\ source_dir = <<"D">>
    /\ dir_layout = "year_month"
    /\ month = <<"8">>

\* C8 as stated: under an unrecognized layout mode no file is given a
\* destination or moved, whether it has a timestamp or not.
C8_NothingMovedUnderBadLayout ==
    dir_layout \notin Layouts =>
        /\ Untouched
        /\ history = <<>>
        /\ step = "extract"

\* C8 amended: under an unrecognized layout mode the process exits with
\* status 1 at the first file whose tag yields a year and a month token, and
\* that file is not moved; a file that never reaches the resolver (no tag,
\* or a video tag with no month token) is still moved to the default bucket
\* and recorded there, so the default bucket is the only destination used.
C8_BadLayoutOnlyDefault ==
    dir_layout \notin Layouts =>
        /\ BothTokens(cur_input) =>
             /\ outcome = "InvalidLayout"
             /\ ExitStatus(outcome) = 1
             /\ step = "extract"
             /\ AtSource(CurFile)
             /\ ~rendered
        /\ step # "extract" => date_dir = DefaultDir
        /\ \A k \in 1..Len(history) : history[k][2] = DefaultDir
        /\ DOMAIN transactions \subseteq {DefaultDir}
        /\ dirs \subseteq Ancestors(source_dir)
                            \cup {source_dir \o E_08, DefaultDir}

\* C8 witness: under an unrecognized layout a file without a tag was moved
\* to the default bucket, and a later file with a full tag ended the run
C8_Witness ==
    /\ dir_layout \notin Layouts
    /\ outcome = "InvalidLayout"
    /\ Len(history) >= 1
    /\ MoveDest(DefaultDir, history[1][1]) \in files

\* C9: the log holds, under each destination, the filenames in the order
\* they were recorded; the report lists each destination once, in
\* lexicographic order, with those filenames; in a full run the recording
\* order is the photos in listing order, then the videos in listing order.
C9_ReportOrder ==
    /\ DOMAIN transactions = { history[k][2] : k \in 1..Len(history) }
    /\ \A d \in DOMAIN transactions : transactions[d] = RecordedUnder(d)
    /\ rendered =>
        /\ { report[n][1] : n \in 1..Len(report) } = DOMAIN transactions
        /\ Len(report) = Cardinality(DOMAIN transactions)
        /\ \A n \in 1..(Len(report) - 1) :
              StrLess(report[n][1], report[n + 1][1])
        /\ \A n \in 1..Len(report) :
              report[n][2] = RecordedUnder(report[n][1])
        /\ [k \in 1..Len(history) |-> history[k][1]] = imgs \o videos
        /\ imgs \o videos =
              SelectSeq(arr, LAMBDA f : MediaKind(f) = "photo") \o
              SelectSeq(arr, LAMBDA f : MediaKind(f) = "video")

\* C9 witness: a report of two destinations, one of them holding a photo
\* followed by a video that was listed before the photo
C9_Witness ==
    /\ rendered
    /\ Len(report) = 2
    /\ \E n \in 1..2 : report[n][2] = <<A_JPG, C_MP4>>
    /\ arr[1] = C_MP4

\* C10: the photos are exactly the names whose text after the last '.' is
\* jpg or png, the videos exactly those where it is mp4, each in listing
\* order; every name without a '.' is in neither.
C10_ClassifiedByExtension ==
    pc = "classified" =>
        /\ imgs = SelectSeq(arr,
              LAMBDA f : HasDot(f) /\ Extension(f) \in photo_types)
        /\ videos = SelectSeq(arr,
              LAMBDA f : HasDot(f) /\ Extension(f) \in video_types)
        /\ \A k \in 1..Len(arr) :
              ~HasDot(arr[k]) =>
                  arr[k] \notin Range(imgs) \cup Range(videos)

====
